---- MODULE Spec2Model ----
(***************************************************************************)
(* Verification model of emdp.gridworld.GridWorldMDP: the construction of  *)
(* the four-rooms grid world (maze parsing, transition tensor, reward      *)
(* matrix, initial distribution) and the runtime calls reset, step and     *)
(* set_current_state_to with their coordinate view human_state.            *)
(*                                                                         *)
(* Probabilities are exact rationals <<n, d>> in lowest terms (d > 0);     *)
(* floating-point rounding is not modelled.  A row P[s][a] of the          *)
(* transition tensor is stored as the map from its nonzero columns to      *)
(* their mass; Prob reads the dense entry.                                 *)
(***************************************************************************)
EXTENDS Integers, Sequences, FiniteSets, TLC

VARIABLES goal, pc, wi, P, R, p0, size, num_states, has_absorbing_state,
          terminal_states, current_state, human_state, lastCall, arg, ret

vars == <<goal, pc, wi, P, R, p0, size, num_states, has_absorbing_state,
          terminal_states, current_state, human_state, lastCall, arg, ret>>

(***************************************************************************)
(* Exact rational arithmetic.                                              *)
(***************************************************************************)
RECURSIVE GCD(_, _)
GCD(a, b) == IF b = 0 THEN a ELSE GCD(b, a % b)

Abs(x) == IF x < 0 THEN -x ELSE x

Rat(n, d) ==
    LET g == GCD(Abs(n), d) IN
    IF n = 0 THEN <<0, 1>> ELSE <<n \div g, d \div g>>

RZero == Rat(0, 1)

ROne == Rat(1, 1)

RAdd(x, y) == Rat(x[1] * y[2] + y[1] * x[2], x[2] * y[2])

RSub(x, y) == Rat(x[1] * y[2] - y[1] * x[2], x[2] * y[2])

RMul(x, y) == Rat(x[1] * y[1], x[2] * y[2])

RDivInt(x, k) == Rat(x[1], x[2] * k)

RPos(x) == x[1] > 0

(***************************************************************************)
(* The value None (no coordinate is negative), as in the marker            *)
(* (None, None), and the current state of a world that has none yet.       *)
(***************************************************************************)
None == -1

NoState == <<>>

(***************************************************************************)
(* emdp.actions                                                            *)
(***************************************************************************)
LEFT == 0

RIGHT == 1

UP == 2

DOWN == 3

Actions == {LEFT, RIGHT, UP, DOWN}

\* the displacement (d_row, d_col) of an action
Displacement(a) ==
    CASE a = LEFT  -> <<0, -1>>
      [] a = RIGHT -> <<0, 1>>
      [] a = UP    -> <<-1, 0>>
      [] a = DOWN  -> <<1, 0>>

(***************************************************************************)
(* The maze text of GridWorldMDP.__init__: the lines of the literal after  *)
(* [1:].split('\n'), each still carrying its indentation.                  *)
(***************************************************************************)
Indent == <<" ", " ", " ", " ", " ", " ", " ", " ">>

raw_room ==
    << Indent \o <<"#", "#", "#", "#", "#", "#", "#", "#", "#">>,
       Indent \o <<"#", " ", " ", " ", "#", " ", " ", " ", "#">>,
       Indent \o <<"#", " ", " ", " ", " ", " ", " ", " ", "#">>,
       Indent \o <<"#", " ", " ", " ", "#", " ", " ", " ", "#">>,
       Indent \o <<"#", "#", " ", "#", "#", "#", " ", "#", "#">>,
       Indent \o <<"#", " ", " ", " ", "#", " ", " ", " ", "#">>,
       Indent \o <<"#", " ", " ", " ", " ", " ", " ", " ", "#">>,
       Indent \o <<"#", " ", " ", " ", "#", " ", " ", " ", "#">>,
       Indent \o <<"#", "#", "#", "#", "#", "#", "#", "#", "#">> >>

\* str.strip(): drop leading and trailing whitespace
RECURSIVE lstrip(_)
lstrip(row) ==
    IF row # <<>> /\ Head(row) = " " THEN lstrip(Tail(row)) ELSE row

RECURSIVE rstrip(_)
rstrip(row) ==
    IF row # <<>> /\ row[Len(row)] = " "
    THEN rstrip(SubSeq(row, 1, Len(row) - 1))
    ELSE row

strip(row) == rstrip(lstrip(row))

ascii_room == [i \in 1..Len(raw_room) |-> strip(raw_room[i])]

(***************************************************************************)
(* txt_utilities: the character matrix and the wall / open classification. *)
(* Coordinates are (row, col), 0-indexed; lists are in row-major order.    *)
(***************************************************************************)
get_char_matrix(room) == room

char_matrix == get_char_matrix(ascii_room)

grid_size == Len(char_matrix[1])

\* the coordinates (row, col) of a square grid of width n, row-major
CoordSeq(n) == [k \in 1..(n * n) |-> <<(k - 1) \div n, (k - 1) % n>>]

Coords(n) == {CoordSeq(n)[k] : k \in 1..(n * n)}

CharAt(m, c) == m[c[1] + 1][c[2] + 1]

ascii_to_walls(m) ==
    LET n == Len(m[1])
        all == CoordSeq(n)
    IN  << SelectSeq(all, LAMBDA c : CharAt(m, c) = "#"),
           SelectSeq(all, LAMBDA c : CharAt(m, c) # "#") >>

\* the two lists unpacked in the wrong order
walls_empty_Swapped ==
    <<ascii_to_walls(char_matrix)[2], ascii_to_walls(char_matrix)[1]>>

\* walls, empty_ = txt_utilities.ascii_to_walls(char_matrix)
walls_empty == ascii_to_walls(char_matrix)

walls == walls_empty[1]

empty_ == walls_empty[2]

(***************************************************************************)
(* helper_utilities: the state coder.                                      *)
(***************************************************************************)
\* numpy argmax: the first index holding the largest entry
argmax(vec) ==
    CHOOSE i \in DOMAIN vec :
        /\ \A j \in DOMAIN vec : vec[j] <= vec[i]
        /\ \A j \in DOMAIN vec : j < i => vec[j] < vec[i]

flatten_state(state, sz, n_states) ==
    LET idx == sz * state[1] + state[2]
    IN  [i \in 0..(n_states - 1) |-> IF i = idx THEN 1 ELSE 0]

unflatten_state(onehot, sz, absorbing) ==
    LET index == argmax(onehot)
    IN  IF absorbing /\ index = sz * sz
        THEN <<None, None>>
        ELSE <<index \div sz, index % sz>>

\* ndarray.nonzero(): the indices of the nonzero entries
nonzero(vec) == {i \in DOMAIN vec : vec[i] # 0}

(***************************************************************************)
(* builder_tools.TransitionMatrixBuilder.  A tensor is a function          *)
(* state -> action -> row, a row being the map of its nonzero columns.     *)
(***************************************************************************)
EmptyRow == [t \in {} |-> RZero]

\* the dense entry P[s, a, t]
Prob(T, s, a, t) == IF t \in DOMAIN T[s][a] THEN T[s][a][t] ELSE RZero

\* row[t] += m
RowAdd(row, t, m) ==
    IF m = RZero THEN row
    ELSE [x \in (DOMAIN row) \cup {t} |->
            IF x = t
            THEN (IF t \in DOMAIN row THEN RAdd(row[t], m) ELSE m)
            ELSE row[x]]

\* row[t] = 0
RowClear(row, t) == [x \in (DOMAIN row) \ {t} |-> row[x]]

\* the sum of the entries of f at the indices lo..hi (absent entries are 0)
RECURSIVE SumOver(_, _, _)
SumOver(f, lo, hi) ==
    IF lo > hi THEN RZero
    ELSE IF lo = hi THEN (IF lo \in DOMAIN f THEN f[lo] ELSE RZero)
    ELSE LET mid == (lo + hi) \div 2
         IN  RAdd(SumOver(f, lo, mid), SumOver(f, mid + 1, hi))

\* the sum of a vector or of a row of the tensor
Sum(f) ==
    IF DOMAIN f = {} THEN RZero
    ELSE SumOver(f, CHOOSE i \in DOMAIN f : \A j \in DOMAIN f : i <= j,
                    CHOOSE i \in DOMAIN f : \A j \in DOMAIN f : j <= i)

StateSpace(n, has_terminal_state) ==
    n * n + (IF has_terminal_state THEN 1 ELSE 0)

\* TransitionMatrixBuilder(grid_size, has_terminal_state): P all zero
builder_new(n, has_terminal_state) ==
    [s \in 0..(StateSpace(n, has_terminal_state) - 1) |->
        [a \in Actions |-> EmptyRow]]

\* one axis of a move: crossing the grid edge leaves the coordinate unchanged
Clip(x, d, n) == IF x + d < 0 \/ x + d >= n THEN x ELSE x + d

\* the flat index reached from flat index s by action a on an open grid
Target(s, a, n) ==
    LET row == s \div n
        col == s % n
        d   == Displacement(a)
    IN  n * Clip(row, d[1], n) + Clip(col, d[2], n)

\* the row P[s, a, :] of an open grid: p_success on the action's target, the
\* rest shared by the other three directions
RECURSIVE SpreadRow(_, _, _, _, _)
SpreadRow(s, a, n, p_success, todo) ==
    IF todo = {} THEN EmptyRow
    ELSE LET b == CHOOSE x \in todo : TRUE
             m == IF b = a THEN p_success
                  ELSE RDivInt(RSub(ROne, p_success), 3)
         IN  RowAdd(SpreadRow(s, a, n, p_success, todo \ {b}),
                    Target(s, b, n), m)

get_possible_transitions(s, a, n, p_success) ==
    SpreadRow(s, a, n, p_success, Actions)

add_grid(T, n, p_success) ==
    [s \in DOMAIN T |->
        IF s < n * n
        THEN [a \in Actions |-> get_possible_transitions(s, a, n, p_success)]
        ELSE T[s]]

\* add_wall_at that clears the wall's column and drops the mass
add_wall_at_Drop(T, n, position) ==
    LET target_state == argmax(flatten_state(position, n, Cardinality(DOMAIN T)))
    IN  [s \in DOMAIN T |->
            [a \in Actions |->
                IF s # target_state
                THEN RowClear(T[s][a], target_state)
                ELSE T[s][a]]]

\* add_wall_at(position): every other state whose action leads into the wall
\* keeps that mass on itself
add_wall_at(T, n, position) ==
    LET target_state == argmax(flatten_state(position, n, Cardinality(DOMAIN T)))
    IN  [s \in DOMAIN T |->
            [a \in Actions |->
                IF s # target_state /\ RPos(Prob(T, s, a, target_state))
                THEN RowAdd(RowClear(T[s][a], target_state), s,
                            Prob(T, s, a, target_state))
                ELSE T[s][a]]]

(***************************************************************************)
(* builder_tools.create_reward_matrix: the expected reward of (s, a) is    *)
(* the mass the transition tensor puts on each goal times its reward.      *)
(***************************************************************************)
RECURSIVE GoalSum(_, _, _, _, _, _)
GoalSum(T, s, a, n, spec, todo) ==
    IF todo = {} THEN RZero
    ELSE LET g == CHOOSE x \in todo : TRUE
             gi == argmax(flatten_state(g, n, Cardinality(DOMAIN T)))
         IN  RAdd(RMul(Prob(T, s, a, gi), Rat(spec[g], 1)),
                  GoalSum(T, s, a, n, spec, todo \ {g}))

\* a reward matrix that pays on the goal's own row, whatever the action
create_reward_matrix_AtGoal(n_states, n, spec, action_space) ==
    [s \in 0..(n_states - 1) |->
        [a \in 0..(action_space - 1) |->
            IF \E g \in DOMAIN spec : s = n * g[1] + g[2]
            THEN Rat(spec[CHOOSE g \in DOMAIN spec : s = n * g[1] + g[2]], 1)
            ELSE RZero]]

create_reward_matrix(n_states, n, spec, action_space) ==
    [s \in 0..(n_states - 1) |->
        [a \in 0..(action_space - 1) |->
            GoalSum(P, s, a, n, spec, DOMAIN spec)]]

(***************************************************************************)
(* GridWorldMDP.__init__                                                   *)
(***************************************************************************)
\* the goal coordinates a caller constructs the world with: an open cell of
\* a room, a doorway, a cell of the far room, and a wall cell of the border
Goals == {<<1, 1>>, <<4, 2>>, <<7, 7>>, <<0, 4>>}

p_success == 1

goal_reward == 1

reward_spec(g) == [x \in {g} |-> goal_reward]

\* for e in empty_: (e,), = flatten_state(e, ...).nonzero(); empty.append(e)
empty ==
    [k \in 1..Len(empty_) |->
        CHOOSE e \in nonzero(flatten_state(empty_[k], grid_size,
                                           grid_size * grid_size)) : TRUE]

Range(seq) == {seq[k] : k \in 1..Len(seq)}

\* p0 started from the one-hot vector of the corner (0, 0)
make_p0_Corner(n, n_states, idxs) ==
    LET onehot == flatten_state(<<0, 0>>, n, n_states)
    IN  [i \in DOMAIN onehot |->
            IF i \in Range(idxs) THEN Rat(1, Len(idxs)) ELSE Rat(onehot[i], 1)]

\* p0 = flatten_state((1, 1), ...); p0[empty] = 1 / len(empty)
make_p0(n, n_states, idxs) ==
    LET onehot == flatten_state(<<1, 1>>, n, n_states)
    IN  [i \in DOMAIN onehot |->
            IF i \in Range(idxs) THEN Rat(1, Len(idxs)) ELSE Rat(onehot[i], 1)]

\* terminal_states = list(map(lambda tupl: int(size * tupl[0] + tupl[1]), ...))
convert_terminal_states(ts, n) == [k \in 1..Len(ts) |-> n * ts[k][1] + ts[k][2]]

Init ==
    /\ goal \in Goals
    /\ pc = "add_grid"
    /\ wi = 1
    /\ P = builder_new(grid_size, FALSE)
    /\ R = None
    /\ p0 = None
    /\ size = None
    /\ num_states = None
    /\ has_absorbing_state = None
    /\ terminal_states = None
    /\ current_state = None
    /\ human_state = None
    /\ lastCall = [op |-> "none", raised |-> FALSE]
    /\ arg = None
    /\ ret = None

\* add_grid called with a success probability of 9/10
AddGrid_Slippery ==
    /\ pc = "add_grid"
    /\ P' = add_grid(P, grid_size, Rat(9, 10))
    /\ pc' = "walls"
    /\ UNCHANGED <<goal, wi, R, p0, size, num_states, has_absorbing_state,
                   terminal_states, current_state, human_state, lastCall,
                   arg, ret>>

\* builder.add_grid(p_success=1)
AddGrid ==
    /\ pc = "add_grid"
    /\ P' = add_grid(P, grid_size, Rat(p_success, 1))
    /\ pc' = "walls"
    /\ UNCHANGED <<goal, wi, R, p0, size, num_states, has_absorbing_state,
                   terminal_states, current_state, human_state, lastCall,
                   arg, ret>>

\* for (r, c) in walls: builder.add_wall_at((r, c))
AddWall ==
    /\ pc = "walls"
    /\ wi <= Len(walls)
    /\ P' = add_wall_at(P, grid_size, walls[wi])
    /\ wi' = wi + 1
    /\ UNCHANGED <<goal, pc, R, p0, size, num_states, has_absorbing_state,
                   terminal_states, current_state, human_state, lastCall,
                   arg, ret>>

\* R = create_reward_matrix(P.shape[0], grid_size, reward_spec, P.shape[1])
CreateReward ==
    /\ pc = "walls"
    /\ wi > Len(walls)
    /\ R' = create_reward_matrix(Cardinality(DOMAIN P), grid_size,
                                 reward_spec(goal), Cardinality(Actions))
    /\ pc' = "p0"
    /\ UNCHANGED <<goal, wi, P, p0, size, num_states, has_absorbing_state,
                   terminal_states, current_state, human_state, lastCall,
                   arg, ret>>

MakeP0 ==
    /\ pc = "p0"
    /\ p0' = make_p0(grid_size, Cardinality(DOMAIN R), empty)
    /\ pc' = "fields"
    /\ UNCHANGED <<goal, wi, P, R, size, num_states, has_absorbing_state,
                   terminal_states, current_state, human_state, lastCall,
                   arg, ret>>

\* the fields of the object and super().__init__(...)
Finish ==
    /\ pc = "fields"
    /\ terminal_states' = convert_terminal_states(<<>>, grid_size)
    /\ size' = grid_size
    /\ human_state' = <<None, None>>
    /\ has_absorbing_state' = (Len(terminal_states') > 0)
    /\ num_states' = Cardinality(DOMAIN P)
    /\ current_state' = NoState
    /\ pc' = "ready"
    /\ UNCHANGED <<goal, wi, P, R, p0, lastCall, arg, ret>>

Construct == AddGrid \/ AddWall \/ CreateReward \/ MakeP0 \/ Finish

(***************************************************************************)
(* The base class MDP: sampling of the initial and of the next state.      *)
(* current_state is a one-hot vector over the states.                      *)
(***************************************************************************)
OneHot(i, n) == [j \in 0..(n - 1) |-> IF j = i THEN 1 ELSE 0]

\* MDP.reset(): a state drawn from p0
MDP_reset == {OneHot(i, num_states) : i \in {j \in DOMAIN p0 : RPos(p0[j])}}

\* MDP.step(action) rejects an action outside the enumerated set
MDP_step_raises(action) == action \notin Actions

\* MDP.step(action): a state drawn from the row P[current_state, action, :]
MDP_step(action) ==
    {OneHot(t, num_states) : t \in DOMAIN P[argmax(current_state)][action]}

\* MDP.set_current_state_to(state): force the current state to a flat index
MDP_set_current_state_to(state) == OneHot(state, num_states)

(***************************************************************************)
(* GridWorldMDP: the runtime calls.                                        *)
(***************************************************************************)
\* action indices a caller may pass that are outside the enumerated set
InvalidActions == {-1, 4}

\* the coordinates a caller forces the state to: open cells, a doorway, a
\* wall cell of the border
SetCoords == {<<1, 1>>, <<4, 2>>, <<7, 7>>, <<0, 0>>}

\* flatten_state with size and num_states exchanged
self_flatten_state_ArgsSwapped(state) == flatten_state(state, num_states, size)

self_flatten_state(state) == flatten_state(state, size, num_states)

self_unflatten_state(onehot) ==
    unflatten_state(onehot, size, has_absorbing_state)

Called(op, raised) == lastCall' = [op |-> op, raised |-> raised]

\* reset that leaves the coordinate view alone
reset_NoView ==
    /\ pc = "ready"
    /\ current_state' \in MDP_reset
    /\ Called("reset", FALSE)
    /\ UNCHANGED <<goal, pc, wi, P, R, p0, size, num_states,
                   has_absorbing_state, terminal_states, human_state, arg, ret>>

reset ==
    /\ pc = "ready"
    /\ current_state' \in MDP_reset
    /\ human_state' = self_unflatten_state(current_state')
    /\ Called("reset", FALSE)
    /\ UNCHANGED <<goal, pc, wi, P, R, p0, size, num_states,
                   has_absorbing_state, terminal_states, arg, ret>>

\* step that refreshes the coordinate view in a finally clause
step_Finally ==
    /\ pc = "ready"
    /\ current_state # NoState
    /\ \E action \in Actions \cup InvalidActions :
          IF MDP_step_raises(action)
          THEN /\ Called("step", TRUE)
               /\ UNCHANGED current_state
               /\ human_state' = self_unflatten_state(current_state)
          ELSE /\ current_state' \in MDP_step(action)
               /\ human_state' = self_unflatten_state(current_state')
               /\ Called("step", FALSE)
    /\ UNCHANGED <<goal, pc, wi, P, R, p0, size, num_states,
                   has_absorbing_state, terminal_states, arg, ret>>

step ==
    /\ pc = "ready"
    /\ current_state # NoState
    /\ \E action \in Actions \cup InvalidActions :
          IF MDP_step_raises(action)
          THEN /\ Called("step", TRUE)
               /\ UNCHANGED <<current_state, human_state>>
          ELSE /\ current_state' \in MDP_step(action)
               /\ human_state' = self_unflatten_state(current_state')
               /\ Called("step", FALSE)
    /\ UNCHANGED <<goal, pc, wi, P, R, p0, size, num_states,
                   has_absorbing_state, terminal_states, arg, ret>>

\* set_current_state_to done by pinning p0 on the coordinate
set_current_state_to_ViaP0 ==
    /\ pc = "ready"
    /\ \E tuple_state \in SetCoords :
          /\ current_state' =
                MDP_set_current_state_to(argmax(self_flatten_state(tuple_state)))
          /\ p0' = [i \in DOMAIN p0 |-> Rat(current_state'[i], 1)]
    /\ Called("set_current_state_to", FALSE)
    /\ UNCHANGED <<goal, pc, wi, P, R, size, num_states,
                   has_absorbing_state, terminal_states, human_state, arg, ret>>

set_current_state_to ==
    /\ pc = "ready"
    /\ \E tuple_state \in SetCoords :
          current_state' =
              MDP_set_current_state_to(argmax(self_flatten_state(tuple_state)))
    /\ Called("set_current_state_to", FALSE)
    /\ UNCHANGED <<goal, pc, wi, P, R, p0, size, num_states,
                   has_absorbing_state, terminal_states, human_state, arg, ret>>

\* a direct call of GridWorldMDP.flatten_state on an in-bounds coordinate
flatten_call ==
    /\ pc = "ready"
    /\ \E state \in Coords(size) :
          /\ arg' = state
          /\ ret' = self_flatten_state(state)
    /\ Called("flatten_state", FALSE)
    /\ UNCHANGED <<goal, pc, wi, P, R, p0, size, num_states,
                   has_absorbing_state, terminal_states, current_state,
                   human_state>>

\* GridWorldMDP.unflatten_state applied to the vector flatten_state returned
unflatten_call ==
    /\ pc = "ready"
    /\ lastCall.op = "flatten_state"
    /\ ret' = self_unflatten_state(ret)
    /\ Called("unflatten_state", FALSE)
    /\ UNCHANGED <<goal, pc, wi, P, R, p0, size, num_states,
                   has_absorbing_state, terminal_states, current_state,
                   human_state, arg>>

Next == Construct \/ reset \/ step \/ set_current_state_to

Spec == Init /\ [][Next]_vars

NextCoder == Construct \/ flatten_call \/ unflatten_call

SpecCoder == Init /\ [][NextCoder]_vars

(***************************************************************************)
(* Vocabulary of the properties, read off the maze text.                   *)
(***************************************************************************)
Wall(c) == ascii_room[c[1] + 1][c[2] + 1] = "#"

Flat(c) == Len(ascii_room) * c[1] + c[2]

Cells == (0..(Len(ascii_room) - 1)) \X (0..(Len(ascii_room) - 1))

OpenIdx == {Flat(c) : c \in {x \in Cells : ~Wall(x)}}

WallIdx == {Flat(c) : c \in {x \in Cells : Wall(x)}}

\* the transition tensor is finished: add_grid and every add_wall_at ran
PBuilt == pc \in {"p0", "fields", "ready"} \/ (pc = "walls" /\ wi > Len(walls))

\* the row P[s, a, :] is the one-hot distribution on t
OneHotRow(s, a, t) == DOMAIN P[s][a] = {t} /\ P[s][a][t] = ROne

\* the coordinate of a one-hot state vector
CoordOf(v) ==
    LET i == CHOOSE j \in DOMAIN v : v[j] = 1
    IN  IF has_absorbing_state /\ i = size * size
        THEN <<None, None>>
        ELSE <<i \div size, i % size>>

\* C1: once the tensor is built, every row P[s, a, :] of an open state s sums
\* to exactly 1.
C1_OpenRowsSumToOne ==
    PBuilt => \A s \in OpenIdx : \A a \in Actions : Sum(P[s][a]) = ROne

\* an open cell next to a wall whose bounced mass sits on itself
C1_Witness ==
    /\ PBuilt
    /\ Prob(P, Flat(<<1, 1>>), LEFT, Flat(<<1, 1>>)) = ROne
    /\ Sum(P[Flat(<<1, 1>>)][LEFT]) = ROne

\* C2: once the tensor is built, no open state reaches a wall cell with
\* positive probability under any action.
C2_WallsUnreachable ==
    PBuilt =>
        \A s \in OpenIdx : \A a \in Actions : \A w \in WallIdx :
            Prob(P, s, a, w) = RZero

\* the last wall has just been added and the cell beside it no longer enters it
C2_Witness ==
    /\ pc = "walls"
    /\ wi = Len(walls) + 1
    /\ Prob(P, Flat(<<7, 7>>), DOWN, Flat(<<8, 7>>)) = RZero
    /\ Prob(P, Flat(<<7, 7>>), RIGHT, Flat(<<7, 8>>)) = RZero

\* C3: the initial distribution sums to 1, is 1/|open cells| on every open
\* cell and 0 on every wall cell, hence positive exactly on the open cells.
C3_UniformP0 ==
    pc \in {"fields", "ready"} =>
        /\ Sum(p0) = ROne
        /\ DOMAIN p0 = OpenIdx \cup WallIdx
        /\ \A i \in OpenIdx : p0[i] = Rat(1, Cardinality(OpenIdx))
        /\ \A i \in WallIdx : p0[i] = RZero
        /\ \A i \in DOMAIN p0 : RPos(p0[i]) <=> i \in OpenIdx

\* the one-hot entry at (1, 1) has been overwritten by the uniform value
C3_Witness ==
    /\ pc = "fields"
    /\ p0[Flat(<<1, 1>>)] = Rat(1, 40)
    /\ p0[Flat(<<0, 0>>)] = RZero

C5_RoundTrip ==
    lastCall.op = "unflatten_state" => ret = arg

\* the round trip of a coordinate with distinct row and column
C5_Witness ==
    /\ lastCall.op = "unflatten_state"
    /\ has_absorbing_state = FALSE
    /\ arg = <<8, 7>>
    /\ ret = <<8, 7>>

\* C6: right after a successful reset() or step(action), human_state is the
\* coordinate of the new current_state.
C6_ViewAfterResetStep ==
    (pc = "ready" /\ lastCall.op \in {"reset", "step"} /\ ~lastCall.raised)
        => human_state = CoordOf(current_state)

\* a step has moved the agent into the doorway (2, 4)
C6_Witness ==
    /\ lastCall = [op |-> "step", raised |-> FALSE]
    /\ current_state = OneHot(Flat(<<2, 4>>), num_states)
    /\ human_state = <<2, 4>>

\* C7: a step with an action outside the enumerated set raises and leaves
\* current_state and human_state as they were before the call.
C7_InvalidActionLeavesState ==
    [][(lastCall'.op = "step" /\ lastCall'.raised)
         => (current_state' = current_state /\ human_state' = human_state)]_vars

\* a rejected step while the view lags behind a forced state
C7_Witness ==
    /\ lastCall = [op |-> "step", raised |-> TRUE]
    /\ current_state = OneHot(Flat(<<7, 7>>), num_states)
    /\ human_state = <<1, 1>>

\* C8: after construction no call changes P, R, p0, size or
\* has_absorbing_state.
C8_ArraysImmutable ==
    [][pc = "ready" => UNCHANGED <<P, R, p0, size, has_absorbing_state>>]_vars

\* a forced state after the world has been reset
C8_Witness ==
    /\ pc = "ready"
    /\ lastCall.op = "set_current_state_to"
    /\ human_state # <<None, None>>
    /\ current_state = OneHot(Flat(<<4, 2>>), num_states)

\* C9: once the tensor is built, every row of an open state is one-hot: on
\* the displaced cell when it is inside the grid and open, else on the state.
C9_DeterministicBounce ==
    PBuilt =>
        \A c \in {x \in Cells : ~Wall(x)} : \A a \in Actions :
            LET d == <<c[1] + Displacement(a)[1], c[2] + Displacement(a)[2]>>
            IN  IF d \in Cells /\ ~Wall(d)
                THEN OneHotRow(Flat(c), a, Flat(d))
                ELSE /\ OneHotRow(Flat(c), a, Flat(c))
                     /\ (d \in Cells => Prob(P, Flat(c), a, Flat(d)) = RZero)

\* the doorway (2, 4): RIGHT moves on, UP bounces off the wall (1, 4)
C9_Witness ==
    /\ pc = "ready"
    /\ OneHotRow(Flat(<<2, 4>>), RIGHT, Flat(<<2, 5>>))
    /\ OneHotRow(Flat(<<2, 4>>), UP, Flat(<<2, 4>>))

\* C10: in every state reached by reset, step and set_current_state_to calls,
\* human_state is the coordinate of current_state.
C10_ViewTracksCurrentState ==
    (pc = "ready" /\ current_state # NoState)
        => human_state = CoordOf(current_state)

====
